---- MODULE Spec2Model ----
(***************************************************************************)
(* Conversation state machines of the survey designer graphs               *)
(* (survey_designerV2/graph.py, survey_designer/graph.py).                 *)
(*                                                                         *)
(* The State dataclass is the record `state`; a node function is an        *)
(* operator from a State record and the collaborators' replies to a        *)
(* NodeResult (the returned State, the collaborator calls it made, and     *)
(* whether it raised).  The executor (pc, status, steps, resumeValue) runs *)
(* one node per step along the edges the graph wiring declares.            *)
(***************************************************************************)
EXTENDS Integers, Sequences, FiniteSets, TLC

VARIABLES
    graph,        \* which compiled graph the thread runs: "V2" or "V1"
    state,        \* the thread's State value (the last committed checkpoint)
    pc,           \* the node the executor runs next, or END
    status,       \* "idle" | "running" | "suspended" | "done" | "failed" | "recursion_error"
    steps,        \* node executions started in the current run
    resumeValue,  \* the value interrupt() returns in the current run, NoValue if none
    starts,       \* start calls made so far on the thread
    resumes,      \* resume calls made so far on the thread
    invocation,   \* history: the caller's invocation that began the current run,
                  \* the State it found and the invocation made before it
    pre,          \* history: the State the last completed node of the run received
    lastCalls,    \* history: the collaborator calls that node made
    lastLabel,    \* history: the direction the Classifier returned to that node
    runNodes,     \* history: the nodes completed in the current run, in order
    runCalls,     \* history: the collaborator calls made in the current run, in order
    designed,     \* history: initial_design has completed successfully on this thread
    lastReplies,  \* history: what _run_chain returned for each call of the node that ran last
    response,     \* the reply the Drafting Service is set to give to a drafting
                  \* prompt (a stubbed service), NoStub when it answers freely
    heap,         \* the Python objects behind the State values: State objects
                  \* and the message lists they refer to, by address
    held          \* history: every State object produced, with the value it had
                  \* when it was produced and the changes that produced it

vars == <<graph, state, pc, status, steps, resumeValue, starts, resumes, invocation,
          pre, lastCalls, lastLabel, runNodes, runCalls, designed, lastReplies, response,
          heap, held>>

\* The variables only the object-level specifications change.
objects == <<heap, held>>

hist == <<invocation, pre, lastCalls, lastLabel, runNodes, runCalls, designed, lastReplies>>

(***************************************************************************)
(* Bounds of the model.                                                    *)
(***************************************************************************)
\* caller invocations (start and resume calls together) explored per thread
\* of survey_designerV2 and of survey_designer
MaxInvocations == 5
MaxDesignerInvocations == 3
\* the executor's step budget per run (langgraph's default is 25)
RecursionLimit == 4
\* tokens in a response text of the Drafting Service
MaxResponseLen == 5
\* start() calls on one survey_programmer thread
MaxProgrammerInvocations == 2
\* _update_state calls applied one after the other to a State
MaxUpdates == 2

(***************************************************************************)
(* Values.                                                                 *)
(***************************************************************************)
None == "None"              \* Python's None
NoValue == "NoValue"        \* no resume value: interrupt() raises GraphInterrupt
END == "__end__"
START == "__start__"

Human(c) == [role |-> "human", content |-> c]
AI(c) == [role |-> "ai", content |-> c]

\* The turn of the off-topic responders.
Apology == AI("Sorry, I can only help with writing surveys.")

\* Texts a human may send.  "" is an empty message, " " a blank one, and the
\* last one holds one of the approval keywords of survey_designer.
HumanTexts == {"", "make q3 shorter"}
DesignerTexts == {" ", "make q3 shorter", "looks good but shorten q3"}
\* The message lists a caller may start a thread with.
StartInputs ==
    [V2 |-> {<<Human("design a survey")>>},
     V1 |-> {<< >>, <<Human("")>>, <<Human("design a survey")>>}]

\* The labels the Classifier Service may put in `direction`; "unsure" stands
\* for any label outside {advance, revise, off-topic}.
KnownLabels == {"advance", "revise", "off-topic"}
Labels == KnownLabels \cup {"unsure"}

\* What _run_chain returns for a classifier prompt: a dict with a direction
\* and a canned response, a dict without `direction`, a dict without
\* `response`, plain text, or the call fails (network, timeout).
Structured(d) == [kind |-> "dict", value |-> [direction |-> d, response |-> AI("canned")]]
NoDirection == [kind |-> "dict", value |-> [response |-> AI("canned")]]
NoResponse == [kind |-> "dict", value |-> [direction |-> "off-topic"]]
PlainText == [kind |-> "text", value |-> "prose"]
CallFailed == [kind |-> "error"]
\* objective_router_decision holds whatever _run_chain returned, so the model
\* keeps the value with its Python type; NoRoute is its default, None.
NoRoute == [kind |-> "none"]
ClassifierReplies ==
    {Structured(d) : d \in Labels} \cup {NoDirection, NoResponse, PlainText, CallFailed}

\* What _run_chain returns for a drafting prompt.
Drafts == {"D1", "D2"}
Objectives == {"O1"}
Reflections == {"R1"}
DraftingReplies(S) == {[kind |-> "text", value |-> d] : d \in S} \cup {CallFailed}

\* config["metadata"]["thread_id"] of the thread
ThreadId == "thread-1"

Last(s) == s[Len(s)]
IsPrefix(s, t) == Len(s) <= Len(t) /\ SubSeq(t, 1, Len(s)) = s

(***************************************************************************)
(* Helpers of survey_designerV2/graph.py.                                  *)
(***************************************************************************)
RECURSIVE latest_human_in(_)
latest_human_in(msgs) ==
    IF msgs = << >> THEN None
    ELSE IF Last(msgs).role = "human" /\ Last(msgs).content # ""
         THEN Last(msgs).content
         ELSE latest_human_in(SubSeq(msgs, 1, Len(msgs) - 1))

latest_human(s) == latest_human_in(s.messages)

\* {**deepcopy(state.__dict__), **changes}: right-hand keys overwrite.
update_state(s, changes) ==
    [f \in DOMAIN s |-> IF f \in DOMAIN changes THEN changes[f] ELSE s[f]]

Call(svc, prompt, args) == [svc |-> svc, prompt |-> prompt, args |-> args]
Returned(s, calls, label) == [state |-> s, calls |-> calls, raised |-> FALSE, label |-> label]
Raised(s, calls) == [state |-> s, calls |-> calls, raised |-> TRUE, label |-> None]

\* _reflection_messages(survey, revision_request): one Drafting call on the
\* revision_reflection prompt; its message list is what the node appends.
reflection_call(survey, revision_request) ==
    Call("drafting", "revision_reflection",
         [survey |-> survey, revision_request |-> revision_request])
reflection_messages(reply) == << AI(reply.value) >>

(***************************************************************************)
(* Response texts and the structured-output recovery of _run_chain.        *)
(* A response text is a sequence of tokens: the braces, "k" a member       *)
(* written as JSON ("a": 1), "q" a member only Python's literal syntax     *)
(* accepts ('a': 1), "x" a word of prose and " " white space.              *)
(***************************************************************************)
Tokens == {"{", "}", "k", "q", "x", " "}
ResponseTexts == UNION {[1..n -> Tokens] : n \in 0..MaxResponseLen}

RECURSIVE lstrip_text(_)
lstrip_text(t) == IF t # << >> /\ t[1] = " " THEN lstrip_text(Tail(t)) ELSE t

RECURSIVE rstrip_text(_)
rstrip_text(t) ==
    IF t # << >> /\ Last(t) = " " THEN rstrip_text(SubSeq(t, 1, Len(t) - 1)) ELSE t

strip_text(t) == rstrip_text(lstrip_text(t))

\* The outcomes of a parse: a dict with its members, or nothing.
Dict(members) == [kind |-> "dict", value |-> [members |-> members]]
NoStructure == [kind |-> "none"]
RecursionError == [kind |-> "error"]

\* `text` is one object whose members all are of the kinds in `allowed`;
\* both parsers accept white space around the object and between members.
IsObject(text, allowed) ==
    LET t == strip_text(text)
    IN  /\ Len(t) >= 2
        /\ t[1] = "{"
        /\ t[Len(t)] = "}"
        /\ \A i \in 2..(Len(t) - 1) : t[i] \in allowed \cup {" "}

IsMember(tok) == tok \in {"k", "q"}
MembersOf(text) == SelectSeq(text, IsMember)

\* json.loads(text): strict JSON
json_loads(text) == IF IsObject(text, {"k"}) THEN Dict(MembersOf(text)) ELSE NoStructure

\* ast.literal_eval(text): {'single': 'quotes'}
literal_eval(text) ==
    IF IsObject(text, {"k", "q"}) THEN Dict(MembersOf(text)) ELSE NoStructure

\* re.search(r'{.*}', text, re.S): from the first "{" to the last "}" after it.
Opens(text) == {i \in 1..Len(text) : text[i] = "{"}
Closes(text) == {i \in 1..Len(text) : text[i] = "}"}
Min(S) == CHOOSE i \in S : \A j \in S : i <= j
Max(S) == CHOOSE i \in S : \A j \in S : i >= j
re_search(text) ==
    IF Opens(text) # {} /\ Closes(text) # {} /\ Min(Opens(text)) < Max(Closes(text))
    THEN [found |-> TRUE, group |-> SubSeq(text, Min(Opens(text)), Max(Closes(text)))]
    ELSE [found |-> FALSE]

\* _coerce_json(text).  The call on the clipped fragment clips that same
\* fragment again when it parses under neither parser: the recursion then
\* never returns a value and Python ends it with RecursionError, which none
\* of the except clauses catches.
RECURSIVE coerce_json(_)
coerce_json(text) ==
    IF json_loads(text).kind = "dict" THEN json_loads(text)
    ELSE IF literal_eval(text).kind = "dict" THEN literal_eval(text)
    ELSE IF re_search(text).found
         THEN IF re_search(text).group = text THEN RecursionError
              ELSE coerce_json(re_search(text).group)
    ELSE NoStructure

\* _run_chain(prompt, **vars) on a reply message with this content, for a
\* prompt that has (structured_expected) or has not a non-string output parser.
run_chain(structured_expected, content) ==
    IF structured_expected
       \/ (lstrip_text(content) # << >> /\ lstrip_text(content)[1] = "{")
    THEN IF coerce_json(content).kind = "none"
         THEN [kind |-> "text", value |-> [text |-> strip_text(content)]]
         ELSE coerce_json(content)
    ELSE [kind |-> "text", value |-> [text |-> strip_text(content)]]

\* What _run_chain returns to a node for a drafting prompt.
NoStub == [stubbed |-> FALSE]
DraftResults ==
    IF ~response.stubbed THEN DraftingReplies(Drafts)
    ELSE {run_chain(response.structured_expected, response.content)}

(***************************************************************************)
(* Routers of survey_designerV2/graph.py.                                  *)
(***************************************************************************)
\* guardrail_router with the comparison lost: every decision enters the graph.
guardrail_router_open(s) ==
    IF s.guardrail_decision # None THEN "objective_clarifier" ELSE END

\* guardrail_router that enters the design cycle at once on `advance`.
guardrail_router_direct(s) ==
    IF s.guardrail_decision = "advance" THEN "initial_design" ELSE END

guardrail_router(s) ==
    IF s.guardrail_decision = "advance" THEN "objective_clarifier" ELSE END

\* design_router that revises on every decision that is not `off-topic`.
design_router_eager(s) ==
    IF s.design_router_decision = "off-topic" THEN "off_topic_revision_nudge"
    ELSE IF s.design_router_decision # None THEN "design_revision"
    ELSE END

design_router(s) ==
    IF s.design_router_decision = "revise" THEN "design_revision"
    ELSE IF s.design_router_decision = "off-topic" THEN "off_topic_revision_nudge"
    ELSE END

objective_router(s) ==
    IF s.design_router_decision = "revise" THEN "objective_reviser"
    ELSE IF s.design_router_decision = "off-topic" THEN "off_topic_objective_nudge"
    ELSE "initial_design"

(***************************************************************************)
(* Node functions of survey_designerV2/graph.py.                           *)
(***************************************************************************)
\* A guardrail node that puts the canned response in the transcript on every
\* label, `advance` included.
initial_guardrail_node_echo(s, reply) ==
    LET call == Call("classifier", "initial_design_guardrail_prompt",
                     [human_message |-> latest_human(s)])
    IN  IF reply.kind # "dict" \/ DOMAIN reply.value # {"direction", "response"}
        THEN Raised(s, <<call>>)
        ELSE Returned(update_state(s,
                          [messages |-> Append(s.messages, reply.value.response),
                           guardrail_decision |-> reply.value.direction,
                           thread_id |-> ThreadId]),
                      <<call>>, reply.value.direction)

initial_guardrail_node(s, reply) ==
    LET call == Call("classifier", "initial_design_guardrail_prompt",
                     [human_message |-> latest_human(s)])
    IN  IF reply.kind = "error" THEN Raised(s, <<call>>)
        ELSE IF reply.kind # "dict" THEN Raised(s, <<call>>)            \* str['direction']
        ELSE IF "direction" \notin DOMAIN reply.value THEN Raised(s, <<call>>)
        ELSE IF reply.value.direction = "advance"
             THEN Returned(update_state(s, [guardrail_decision |-> reply.value.direction,
                                            thread_id |-> ThreadId]),
                           <<call>>, reply.value.direction)
        ELSE IF "response" \notin DOMAIN reply.value THEN Raised(s, <<call>>)
        ELSE Returned(update_state(s,
                          [messages |-> Append(s.messages, reply.value.response),
                           guardrail_decision |-> reply.value.direction,
                           thread_id |-> ThreadId]),
                      <<call>>, reply.value.direction)

objective_clarifier_node(s, reply) ==
    LET call == Call("drafting", "objective_clarifier_prompt",
                     [human_message |-> latest_human(s)])
    IN  IF reply.kind = "error" THEN Raised(s, <<call>>)
        ELSE Returned(update_state(s,
                          [messages |-> Append(s.messages, AI(reply.value)),
                           clarified_objectives |-> reply.value]),
                      <<call>>, None)

objective_reviser_node(s, reply) ==
    LET call == Call("drafting", "objective_reviser_prompt",
                     [revision_request |-> latest_human(s),
                      objectives |-> s.clarified_objectives])
    IN  IF reply.kind = "error" THEN Raised(s, <<call>>)
        ELSE Returned(update_state(s,
                          [messages |-> Append(s.messages, AI(reply.value)),
                           clarified_objectives |-> reply.value]),
                      <<call>>, None)

\* Runs after interrupt() has returned `feedback`.
await_human_feedback_on_objectives_node(s, feedback, reply) ==
    LET call == Call("classifier", "objective_router_prompt",
                     [human_message |-> feedback])
    IN  IF reply.kind = "error" THEN Raised(s, <<call>>)
        ELSE Returned(update_state(s,
                          [messages |-> Append(s.messages, Human(feedback)),
                           objective_router_decision |-> reply]),
                      <<call>>,
                      IF reply.kind = "dict" /\ "direction" \in DOMAIN reply.value
                      THEN reply.value.direction ELSE None)

\* initial_design_node that keeps the draft when the reflection call fails.
initial_design_node_partial(s, draft, reflection) ==
    LET call == Call("drafting", "initial_design_prompt",
                     [objective |-> s.clarified_objectives])
        refl == reflection_call(draft.value, "")
    IN  IF draft.kind = "error" THEN Raised(s, <<call>>)
        ELSE IF reflection.kind = "error"
        THEN Returned(update_state(s, [survey_json |-> draft.value]), <<call, refl>>, None)
        ELSE Returned(update_state(s,
                          [survey_json |-> draft.value,
                           messages |-> s.messages \o reflection_messages(reflection)]),
                      <<call, refl>>, None)

initial_design_node(s, draft, reflection) ==
    LET call == Call("drafting", "initial_design_prompt",
                     [objective |-> s.clarified_objectives])
        refl == reflection_call(draft.value, "")
    IN  IF draft.kind = "error" THEN Raised(s, <<call>>)
        ELSE IF reflection.kind = "error" THEN Raised(s, <<call, refl>>)
        ELSE Returned(update_state(s,
                          [survey_json |-> draft.value,
                           messages |-> s.messages \o reflection_messages(reflection)]),
                      <<call, refl>>, None)

\* Runs after interrupt() has returned `feedback`.
await_human_feedback_on_revision_node(s, feedback, reply) ==
    LET call == Call("classifier", "revision_router_prompt",
                     [human_message |-> feedback])
    IN  IF reply.kind = "error" THEN Raised(s, <<call>>)
        ELSE IF reply.kind # "dict" THEN Raised(s, <<call>>)            \* str['direction']
        ELSE IF "direction" \notin DOMAIN reply.value THEN Raised(s, <<call>>)
        ELSE Returned(update_state(s,
                          [messages |-> Append(s.messages, Human(feedback)),
                           design_router_decision |-> reply.value.direction]),
                      <<call>>, reply.value.direction)

\* revision_reviser_node that stores an empty draft when the revision call
\* fails instead of raising.
revision_reviser_node_clearing(s, draft, reflection) ==
    LET human_message == latest_human(s)
        call == Call("drafting", "revision_reviser_prompt",
                     [human_message |-> human_message,
                      current_survey |-> s.survey_json])
        refl == reflection_call(human_message, "")
    IN  IF draft.kind = "error"
        THEN Returned(update_state(s, [survey_json |-> None]), <<call>>, None)
        ELSE IF reflection.kind = "error" THEN Raised(s, <<call, refl>>)
        ELSE Returned(update_state(s,
                          [survey_json |-> draft.value,
                           messages |-> s.messages \o reflection_messages(reflection)]),
                      <<call, refl>>, None)

\* revision_reviser_node that keeps a draft it already holds.
revision_reviser_node_keeping(s, draft, reflection) ==
    LET human_message == latest_human(s)
        call == Call("drafting", "revision_reviser_prompt",
                     [human_message |-> human_message,
                      current_survey |-> s.survey_json])
        refl == reflection_call(human_message, "")
    IN  IF draft.kind = "error" THEN Raised(s, <<call>>)
        ELSE IF reflection.kind = "error" THEN Raised(s, <<call, refl>>)
        ELSE Returned(update_state(s,
                          [survey_json |-> IF s.survey_json # None THEN s.survey_json
                                           ELSE draft.value,
                           messages |-> s.messages \o reflection_messages(reflection)]),
                      <<call, refl>>, None)

revision_reviser_node(s, draft, reflection) ==
    LET human_message == latest_human(s)
        call == Call("drafting", "revision_reviser_prompt",
                     [human_message |-> human_message,
                      current_survey |-> s.survey_json])
        refl == reflection_call(human_message, "")
    IN  IF draft.kind = "error" THEN Raised(s, <<call>>)
        ELSE IF reflection.kind = "error" THEN Raised(s, <<call, refl>>)
        ELSE Returned(update_state(s,
                          [survey_json |-> draft.value,
                           messages |-> s.messages \o reflection_messages(reflection)]),
                      <<call, refl>>, None)

\* off_topic_revision_node that returns the apology as the whole transcript.
off_topic_revision_node_reset(s) ==
    Returned(update_state(s,
                 [messages |-> << AI("Sorry, I can only help with writing surveys.") >>]),
             << >>, None)

off_topic_revision_node(s) ==
    Returned(update_state(s,
                 [messages |-> Append(s.messages,
                                      AI("Sorry, I can only help with writing surveys."))]),
             << >>, None)

(***************************************************************************)
(* Helpers, router and node functions of survey_designer/graph.py.         *)
(* A node that returns {} leaves every field as it is.                     *)
(***************************************************************************)
\* str.strip() on the texts of the model
strip(t) == IF t = " " THEN "" ELSE t

\* any(k in fb_txt.lower() for k in ("#approve", "looks good", "ship it"))
has_approval_keyword(t) == t \in {"looks good but shorten q3"}

RECURSIVE last_ai_text(_)
last_ai_text(msgs) ==
    IF msgs = << >> THEN ""
    ELSE IF Last(msgs).role = "ai" /\ strip(Last(msgs).content) # ""
         THEN Last(msgs).content
         ELSE last_ai_text(SubSeq(msgs, 1, Len(msgs) - 1))

\* The decision, the direction the Classifier gave (None if it gave none), the
\* classifier calls made and whether the call raised.
llm_route_decision(feedback, reply) ==
    LET call == Call("classifier", "survey_design_router", [human_message |-> feedback])
    IN  IF strip(feedback) = ""
        THEN [decision |-> "wait", label |-> None, calls |-> << >>, raised |-> FALSE]
        ELSE IF reply.kind = "error"
        THEN [decision |-> None, label |-> None, calls |-> <<call>>, raised |-> TRUE]
        ELSE IF reply.kind = "dict"
        THEN IF "direction" \in DOMAIN reply.value
             THEN [decision |-> reply.value.direction, label |-> reply.value.direction,
                   calls |-> <<call>>, raised |-> FALSE]
             ELSE [decision |-> None, label |-> None, calls |-> <<call>>, raised |-> TRUE]
        \* json.loads(result.content) fails on prose
        ELSE [decision |-> "wait", label |-> None, calls |-> <<call>>, raised |-> FALSE]

route_of(decision) ==
    CASE decision = "advance" -> "finalization"
      [] decision = "revise" -> "revision"
      [] decision = "off-topic" -> "off_topic"
      [] OTHER -> "wait"

router(s, reply) ==
    LET d == llm_route_decision(IF s.feedback = None THEN "" ELSE s.feedback, reply)
    IN  [route |-> IF d.raised THEN None ELSE route_of(d.decision),
         label |-> d.label, calls |-> d.calls, raised |-> d.raised]

\* The mapping of add_conditional_edges("wait_for_message", _router, {...}).
RouteTarget(route) ==
    CASE route = "wait" -> "wait_for_message"
      [] route = "revision" -> "revision"
      [] route = "finalization" -> "finalization"
      [] route = "off_topic" -> "off_topic"

designer_initial_design_node(s, draft, reflection) ==
    LET objective == latest_human(s)
        call == Call("drafting", "survey_writer", [research_objective |-> objective])
        refl == reflection_call(draft.value, "")
    IN  IF objective = None THEN Returned(s, << >>, None)
        ELSE IF draft.kind = "error" THEN Raised(s, <<call>>)
        ELSE IF reflection.kind = "error" THEN Raised(s, <<call, refl>>)
        ELSE Returned(update_state(s,
                          [survey_text |-> draft.value,
                           feedback |-> None,
                           approved |-> FALSE,
                           messages |-> s.messages \o reflection_messages(reflection)]),
                      <<call, refl>>, None)

\* The branch of wait_for_message_node that stores a new human message.
wait_for_message_node(s) ==
    LET fb_txt == strip(Last(s.messages).content)
    IN  Returned(update_state(s, [feedback |-> fb_txt,
                                  approved |-> has_approval_keyword(fb_txt)]),
                 << >>, None)

revision_node(s, draft, reflection) ==
    LET current == IF s.survey_text \in {None, ""} THEN last_ai_text(s.messages)
                   ELSE s.survey_text
        request == IF s.feedback = None THEN "" ELSE s.feedback
        call == Call("drafting", "survey_reviser",
                     [current_survey |-> current, revision_request |-> request])
        refl == reflection_call(draft.value, request)
    IN  IF s.approved THEN Returned(s, << >>, None)
        ELSE IF draft.kind = "error" THEN Raised(s, <<call>>)
        ELSE IF reflection.kind = "error" THEN Raised(s, <<call, refl>>)
        ELSE Returned(update_state(s,
                          [survey_text |-> draft.value,
                           feedback |-> None,
                           messages |-> s.messages \o reflection_messages(reflection)]),
                      <<call, refl>>, None)

finalization_node(s) ==
    Returned(update_state(s,
                 [messages |-> Append(s.messages,
                                      AI("Thank you for your attention to this matter"))]),
             << >>, None)

off_topic_node(s) ==
    Returned(update_state(s,
                 [messages |-> Append(s.messages,
                                      AI("Sorry, I can only help with writing surveys."))]),
             << >>, None)

(***************************************************************************)
(* The thread's State at construction.                                     *)
(***************************************************************************)
StateV2 ==
    [messages |-> << >>,
     thread_id |-> None,
     survey_json |-> None,
     guardrail_decision |-> None,
     design_router_decision |-> None,
     objective_router_decision |-> NoRoute,
     clarified_objectives |-> None]

DesignerState ==
    [messages |-> << >>,
     survey_text |-> None,
     feedback |-> None,
     approved |-> FALSE]

\* The kind and input of the invocation before the one being made.
NoInvocation == [kind |-> "none", input |-> None]
Previous == [kind |-> invocation.kind, input |-> invocation.input]

InitialState == [V2 |-> StateV2, V1 |-> DesignerState]
EntryNode == [V2 |-> "initial_guardrail", V1 |-> "initial_design"]

Init ==
    /\ graph \in {"V2", "V1"}
    /\ state = InitialState[graph]
    /\ pc = START
    /\ status = "idle"
    /\ steps = 0
    /\ resumeValue = NoValue
    /\ starts = 0
    /\ resumes = 0
    /\ invocation = [kind |-> "none", input |-> None, state |-> state,
                     previous |-> NoInvocation]
    /\ pre = InitialState[graph]
    /\ lastCalls = << >>
    /\ lastLabel = None
    /\ runNodes = << >>
    /\ runCalls = << >>
    /\ designed = FALSE
    /\ lastReplies = << >>
    /\ response = NoStub
    /\ heap = << >>
    /\ held = << >>

(***************************************************************************)
(* The executor.                                                           *)
(***************************************************************************)
\* The node that completed last in the current run, None before the first.
LastNode == IF runNodes = << >> THEN None ELSE Last(runNodes)

\* A new run: the per-run history starts empty.
BeginRun(s) ==
    /\ pre' = s
    /\ lastCalls' = << >>
    /\ lastLabel' = None
    /\ lastReplies' = << >>
    /\ runNodes' = << >>
    /\ runCalls' = << >>

MayInvoke ==
    starts + resumes < (IF graph = "V2" THEN MaxInvocations ELSE MaxDesignerInvocations)

Running(node) == status = "running" /\ pc = node /\ steps < RecursionLimit

\* A node ran: commit what it returned and follow the edge to `next`; a node
\* that raised ends the run and leaves the last committed State in place.
\* `replies` are the collaborators' replies the node was given, in call order.
Complete(node, result, next, replies) ==
    /\ steps' = steps + 1
    /\ resumeValue' = NoValue
    /\ runCalls' = runCalls \o result.calls
    /\ lastReplies' = SubSeq(replies, 1, Len(result.calls))
    /\ UNCHANGED <<graph, starts, resumes, invocation, response, objects>>
    /\ IF result.raised
       THEN /\ status' = "failed"
            /\ UNCHANGED <<state, pc, pre, lastCalls, lastLabel, runNodes, designed>>
       ELSE /\ state' = result.state
            /\ pc' = next
            /\ status' = IF next = END THEN "done" ELSE "running"
            /\ pre' = state
            /\ lastCalls' = result.calls
            /\ lastLabel' = result.label
            /\ runNodes' = Append(runNodes, node)
            /\ designed' = (designed \/ node = "initial_design")

\* interrupt() without a resume value: the run stops at this node, nothing
\* of the node is committed.
Suspend ==
    /\ status' = "suspended"
    /\ steps' = steps + 1
    /\ UNCHANGED <<graph, state, pc, resumeValue, starts, resumes, response, objects>>
    /\ UNCHANGED hist

\* start(thread_id, input): the input messages are added to the thread's
\* State and the run begins at the node START points to.
Start ==
    /\ status # "running"
    /\ MayInvoke
    /\ \E input \in StartInputs[graph] :
          /\ state' = update_state(state, [messages |-> state.messages \o input])
          /\ invocation' = [kind |-> "start", input |-> input, state |-> state,
                            previous |-> Previous]
          /\ BeginRun(update_state(state, [messages |-> state.messages \o input]))
    /\ pc' = EntryNode[graph]
    /\ status' = "running"
    /\ steps' = 0
    /\ resumeValue' = NoValue
    /\ starts' = starts + 1
    /\ UNCHANGED <<graph, resumes, designed, response, objects>>

\* resume(thread_id, human_input): the suspended node is executed again and
\* its interrupt() returns the human input.
Resume ==
    /\ graph = "V2"
    /\ status = "suspended"
    /\ MayInvoke
    /\ \E v \in HumanTexts :
          /\ resumeValue' = v
          /\ invocation' = [kind |-> "resume", input |-> v, state |-> state,
                            previous |-> Previous]
    /\ status' = "running"
    /\ steps' = 0
    /\ resumes' = resumes + 1
    /\ BeginRun(state)
    /\ UNCHANGED <<graph, starts, state, pc, designed, response, objects>>

\* survey_designer reads the human's feedback from the transcript: the resume
\* either carries the human message as a state update (inject) or is a bare
\* resume value, which wait_for_message_node drops.
ResumeDesigner ==
    /\ graph = "V1"
    /\ status = "suspended"
    /\ MayInvoke
    /\ \E v \in DesignerTexts, inject \in BOOLEAN :
          /\ resumeValue' = v
          /\ state' = IF inject
                      THEN update_state(state, [messages |-> Append(state.messages, Human(v))])
                      ELSE state
          /\ invocation' = [kind |-> "resume", input |-> v, state |-> state,
                            previous |-> Previous]
          /\ BeginRun(IF inject
                      THEN update_state(state, [messages |-> Append(state.messages, Human(v))])
                      ELSE state)
    /\ status' = "running"
    /\ steps' = 0
    /\ resumes' = resumes + 1
    /\ UNCHANGED <<graph, starts, pc, designed, response, objects>>

\* The step budget is used up before END or a suspension: GraphRecursionError.
OutOfSteps ==
    /\ status = "running"
    /\ steps >= RecursionLimit
    /\ status' = "recursion_error"
    /\ UNCHANGED <<graph, state, pc, steps, resumeValue, starts, resumes, response, objects>>
    /\ UNCHANGED hist

(***************************************************************************)
(* survey_designerV2: one action per registered node, with its edge.       *)
(***************************************************************************)
InitialGuardrail ==
    /\ graph = "V2" /\ Running("initial_guardrail")
    /\ \E reply \in ClassifierReplies :
          LET r == initial_guardrail_node(state, reply)
          IN  Complete("initial_guardrail", r, guardrail_router(r.state), <<reply>>)

ObjectiveClarifier ==
    /\ graph = "V2" /\ Running("objective_clarifier")
    /\ \E reply \in DraftingReplies(Objectives) :
          Complete("objective_clarifier", objective_clarifier_node(state, reply),
                   "await_objective_feedback", <<reply>>)

AwaitObjectiveFeedback ==
    /\ graph = "V2" /\ Running("await_objective_feedback")
    /\ IF resumeValue = NoValue
       THEN Suspend
       ELSE \E reply \in ClassifierReplies :
               LET r == await_human_feedback_on_objectives_node(state, resumeValue, reply)
               IN  Complete("await_objective_feedback", r, objective_router(r.state),
                            <<reply>>)

ObjectiveReviser ==
    /\ graph = "V2" /\ Running("objective_reviser")
    /\ \E reply \in DraftingReplies(Objectives) :
          Complete("objective_reviser", objective_reviser_node(state, reply),
                   "await_objective_feedback", <<reply>>)

OffTopicObjectiveNudge ==
    /\ graph = "V2" /\ Running("off_topic_objective_nudge")
    /\ Complete("off_topic_objective_nudge", off_topic_revision_node(state),
                "await_objective_feedback", << >>)

InitialDesign ==
    /\ graph = "V2" /\ Running("initial_design")
    /\ \E draft \in DraftResults, reflection \in DraftingReplies(Reflections) :
          Complete("initial_design", initial_design_node(state, draft, reflection),
                   "await_revision_feedback", <<draft, reflection>>)

AwaitRevisionFeedback ==
    /\ graph = "V2" /\ Running("await_revision_feedback")
    /\ IF resumeValue = NoValue
       THEN Suspend
       ELSE \E reply \in ClassifierReplies :
               LET r == await_human_feedback_on_revision_node(state, resumeValue, reply)
               IN  Complete("await_revision_feedback", r, design_router(r.state),
                            <<reply>>)

DesignRevision ==
    /\ graph = "V2" /\ Running("design_revision")
    /\ \E draft \in DraftResults, reflection \in DraftingReplies(Reflections) :
          Complete("design_revision", revision_reviser_node(state, draft, reflection),
                   "await_revision_feedback", <<draft, reflection>>)

OffTopicRevisionNudge ==
    /\ graph = "V2" /\ Running("off_topic_revision_nudge")
    /\ Complete("off_topic_revision_nudge", off_topic_revision_node(state),
                "await_revision_feedback", << >>)

(***************************************************************************)
(* survey_designer: one action per registered node, with its edge.         *)
(***************************************************************************)
DesignerInitialDesign ==
    /\ graph = "V1" /\ Running("initial_design")
    /\ \E draft \in DraftingReplies(Drafts), reflection \in DraftingReplies(Reflections) :
          Complete("initial_design", designer_initial_design_node(state, draft, reflection),
                   "wait_for_message", <<draft, reflection>>)

\* The node and the router of its conditional edge; a router that raises
\* fails the step, so nothing of the node is committed.
WaitForMessage ==
    /\ graph = "V1" /\ Running("wait_for_message")
    /\ LET human_last == state.messages # << >> /\ Last(state.messages).role = "human"
       IN  IF ~human_last /\ resumeValue = NoValue
           THEN Suspend
           ELSE \E reply \in ClassifierReplies :
                   LET n == IF human_last THEN wait_for_message_node(state)
                            ELSE Returned(state, << >>, None)
                       r == router(n.state, reply)
                   IN  Complete("wait_for_message",
                                IF r.raised THEN Raised(state, r.calls)
                                ELSE Returned(n.state, r.calls, r.label),
                                IF r.raised THEN None ELSE RouteTarget(r.route),
                                <<reply>>)

Revision ==
    /\ graph = "V1" /\ Running("revision")
    /\ \E draft \in DraftingReplies(Drafts), reflection \in DraftingReplies(Reflections) :
          Complete("revision", revision_node(state, draft, reflection), "wait_for_message",
                   <<draft, reflection>>)

Finalization ==
    /\ graph = "V1" /\ Running("finalization")
    /\ Complete("finalization", finalization_node(state), END, << >>)

OffTopic ==
    /\ graph = "V1" /\ Running("off_topic")
    /\ Complete("off_topic", off_topic_node(state), "wait_for_message", << >>)

Next ==
    \/ Start
    \/ Resume
    \/ ResumeDesigner
    \/ OutOfSteps
    \/ InitialGuardrail
    \/ ObjectiveClarifier
    \/ AwaitObjectiveFeedback
    \/ ObjectiveReviser
    \/ OffTopicObjectiveNudge
    \/ InitialDesign
    \/ AwaitRevisionFeedback
    \/ DesignRevision
    \/ OffTopicRevisionNudge
    \/ DesignerInitialDesign
    \/ WaitForMessage
    \/ Revision
    \/ Finalization
    \/ OffTopic

Spec == Init /\ [][Next]_vars

(***************************************************************************)
(* Node contracts: a node function applied to any State of its graph, as   *)
(* when a caller or a test calls the node directly.  The run then follows  *)
(* the edges from that node.                                               *)
(***************************************************************************)
SampleTranscripts ==
    {<< >>,
     <<Human("")>>,
     <<Human("design a survey")>>,
     <<Human("design a survey"), AI("R1")>>,
     <<Human("design a survey"), AI("R1"), Human("make q3 shorter")>>}

NodeStates ==
    [V2 |-> [messages : SampleTranscripts,
             thread_id : {None, ThreadId},
             survey_json : {None, "D1"},
             guardrail_decision : {None, "advance"},
             design_router_decision : {None} \cup KnownLabels,
             objective_router_decision : {NoRoute},
             clarified_objectives : {None, "O1"}],
     V1 |-> [messages : SampleTranscripts,
             survey_text : {None, "D1"},
             feedback : {None, "make q3 shorter"},
             approved : BOOLEAN]]

Nodes ==
    [V2 |-> {"initial_guardrail", "objective_clarifier", "await_objective_feedback",
             "objective_reviser", "off_topic_objective_nudge", "initial_design",
             "await_revision_feedback", "design_revision", "off_topic_revision_nudge"},
     V1 |-> {"initial_design", "wait_for_message", "revision", "finalization", "off_topic"}]

NodeInit ==
    /\ graph \in {"V2", "V1"}
    /\ state \in NodeStates[graph]
    /\ pc \in Nodes[graph]
    /\ status = "running"
    /\ steps = 0
    /\ resumeValue \in {NoValue, "make q3 shorter"}
    /\ starts = 0
    /\ resumes = 0
    /\ invocation = [kind |-> "node", input |-> None, state |-> state,
                     previous |-> NoInvocation]
    /\ pre = state
    /\ lastCalls = << >>
    /\ lastLabel = None
    /\ runNodes = << >>
    /\ runCalls = << >>
    /\ designed = (graph = "V2" /\ state.survey_json # None)
    /\ lastReplies = << >>
    /\ response = NoStub
    /\ heap = << >>
    /\ held = << >>

NodeNext ==
    \/ InitialGuardrail
    \/ ObjectiveClarifier
    \/ AwaitObjectiveFeedback
    \/ ObjectiveReviser
    \/ OffTopicObjectiveNudge
    \/ InitialDesign
    \/ AwaitRevisionFeedback
    \/ DesignRevision
    \/ OffTopicRevisionNudge
    \/ DesignerInitialDesign
    \/ WaitForMessage
    \/ Revision
    \/ Finalization
    \/ OffTopic

NodeSpec == NodeInit /\ [][NodeNext]_vars

(***************************************************************************)
(* The recovery of structured output: initial_design executed at the entry *)
(* of the design cycle against a Drafting Service that answers the         *)
(* initial_design_prompt with one given response text.                     *)
(***************************************************************************)
DesignEntryState ==
    update_state(StateV2,
        [messages |-> <<Human("design a survey"), AI("O1"), Human("make q3 shorter")>>,
         thread_id |-> ThreadId,
         guardrail_decision |-> "advance",
         objective_router_decision |-> Structured("advance"),
         clarified_objectives |-> "O1"])

ChainInit ==
    /\ graph = "V2"
    /\ state = DesignEntryState
    /\ pc = "initial_design"
    /\ status = "running"
    /\ steps = 0
    /\ resumeValue = NoValue
    /\ starts = 0
    /\ resumes = 0
    /\ invocation = [kind |-> "node", input |-> None, state |-> state,
                     previous |-> NoInvocation]
    /\ pre = state
    /\ lastCalls = << >>
    /\ lastLabel = None
    /\ runNodes = << >>
    /\ runCalls = << >>
    /\ designed = FALSE
    /\ lastReplies = << >>
    /\ response \in [stubbed : {TRUE}, structured_expected : BOOLEAN, content : ResponseTexts]
    /\ heap = << >>
    /\ held = << >>

ChainNext ==
    \/ InitialDesign
    \/ AwaitRevisionFeedback

ChainSpec == ChainInit /\ [][ChainNext]_vars

(***************************************************************************)
(* _update_state at the level of Python objects.  `heap` is the sequence   *)
(* of objects allocated so far, an object's address is its index.  A       *)
(* State object holds the address of its message list in `messages`; its   *)
(* other fields hold values.  The specification applies the _update_state  *)
(* calls of the node functions, in any order, to the State produced last.  *)
(***************************************************************************)
\* The value of the State object at `ref`, its message list read through.
Value(h, ref) ==
    [f \in DOMAIN h[ref] |-> IF f = "messages" THEN h[h[ref].messages] ELSE h[ref][f]]

\* _update_state written as assignments to the fields of `state` itself.
update_state_in_place(h, ref, changes) ==
    [heap |-> [h EXCEPT ![ref] = [f \in DOMAIN h[ref] |->
                                     IF f \in DOMAIN changes THEN changes[f]
                                     ELSE h[ref][f]]],
     ref |-> ref]

\* _update_state(state, **changes): deepcopy(state.__dict__) allocates a copy
\* of the message list, the changes overwrite the copied fields, and
\* State(**merged) allocates the new State object.
update_state_object(h, ref, changes) ==
    LET copied == Len(h) + 1
        merged == [f \in DOMAIN h[ref] |->
                      IF f \in DOMAIN changes THEN changes[f]
                      ELSE IF f = "messages" THEN copied
                      ELSE h[ref][f]]
    IN  [heap |-> h \o << h[h[ref].messages], merged >>,
         ref |-> Len(h) + 2]

\* The keyword arguments of the _update_state calls in the node functions,
\* for a node called with the State value s.
UpdateCalls(s) ==
    IF graph = "V2"
    THEN {[messages |-> Append(s.messages, Apology)]}
         \cup {[guardrail_decision |-> "advance", thread_id |-> ThreadId]}
         \cup {[messages |-> Append(s.messages, AI("canned")),
                guardrail_decision |-> "off-topic", thread_id |-> ThreadId]}
         \cup {[messages |-> Append(s.messages, AI(o)), clarified_objectives |-> o] :
                  o \in Objectives}
         \cup {[messages |-> Append(s.messages, Human(v)), objective_router_decision |-> r] :
                  v \in HumanTexts, r \in {Structured(d) : d \in KnownLabels}}
         \cup {[survey_json |-> d, messages |-> s.messages \o <<AI(r)>>] :
                  d \in Drafts, r \in Reflections}
         \cup {[messages |-> Append(s.messages, Human(v)), design_router_decision |-> d] :
                  v \in HumanTexts, d \in KnownLabels}
    ELSE {[messages |-> Append(s.messages, Apology)]}
         \cup {[messages |-> Append(s.messages,
                                    AI("Thank you for your attention to this matter"))]}
         \cup {[survey_text |-> d, feedback |-> None, approved |-> FALSE,
                messages |-> s.messages \o <<AI(r)>>] : d \in Drafts, r \in Reflections}
         \cup {[survey_text |-> d, feedback |-> None,
                messages |-> s.messages \o <<AI(r)>>] : d \in Drafts, r \in Reflections}
         \cup {[feedback |-> strip(v), approved |-> has_approval_keyword(strip(v))] :
                  v \in DesignerTexts}

UpdateStates ==
    [V2 |-> {update_state(StateV2, [messages |-> m, survey_json |-> d]) :
                m \in SampleTranscripts, d \in {None, "D1"}},
     V1 |-> {update_state(DesignerState, [messages |-> m, survey_text |-> d]) :
                m \in SampleTranscripts, d \in {None, "D1"}}]

UpdateInit ==
    /\ graph \in {"V2", "V1"}
    /\ state \in UpdateStates[graph]
    /\ heap = << state.messages, update_state(state, [messages |-> 1]) >>
    /\ held = << [ref |-> 2, value |-> state, changes |-> << >>] >>
    /\ pc = START
    /\ status = "idle"
    /\ steps = 0
    /\ resumeValue = NoValue
    /\ starts = 0
    /\ resumes = 0
    /\ invocation = [kind |-> "node", input |-> None, state |-> state,
                     previous |-> NoInvocation]
    /\ pre = state
    /\ lastCalls = << >>
    /\ lastLabel = None
    /\ runNodes = << >>
    /\ runCalls = << >>
    /\ designed = FALSE
    /\ lastReplies = << >>
    /\ response = NoStub

\* A node function returns _update_state(state, **changes): the message list
\* it passes, if any, is a new list (state.messages + [...]).
NodeUpdate ==
    /\ Len(held) <= MaxUpdates
    /\ \E changes \in UpdateCalls(state) :
          LET current == held[Len(held)].ref
              passed == IF "messages" \in DOMAIN changes
                        THEN Append(heap, changes.messages) ELSE heap
              args == [f \in DOMAIN changes |->
                          IF f = "messages" THEN Len(passed) ELSE changes[f]]
              u == update_state_object(passed, current, args)
          IN  /\ heap' = u.heap
              /\ held' = Append(held, [ref |-> u.ref, value |-> Value(u.heap, u.ref),
                                       changes |-> changes])
              /\ state' = Value(u.heap, u.ref)
              /\ pre' = state
    /\ UNCHANGED <<graph, pc, status, steps, resumeValue, starts, resumes, invocation,
                   lastCalls, lastLabel, runNodes, runCalls, designed, lastReplies,
                   response>>

UpdateSpec == UpdateInit /\ [][NodeUpdate]_vars

(***************************************************************************)
(* survey_programmer: orchestrate -> fetch_survey_doc ->                   *)
(* generate_surveyjs_json -> post_fc_survey -> END, with orchestrate's     *)
(* router able to end the run at once.  The graph has no interrupt(): a    *)
(* thread takes start() calls only.                                        *)
(***************************************************************************)
\* Messages of this graph: an AIMessage carries its tool calls, and one
\* whose content is a list (generate_surveyjs_json) keeps it in content_list.
AIMessage(content, tool_calls) ==
    [role |-> "ai", content |-> content, tool_calls |-> tool_calls]
AIListMessage(items) == [role |-> "ai", content_list |-> items, tool_calls |-> << >>]
ToolMessage(content) == [role |-> "tool", content |-> content]

StepApology ==
    AIMessage("Sorry, I could not find an answer to your question in the specified number of steps.",
              << >>)

\* The State of survey_programmer, as graph.py reads and writes it;
\* is_last_step is managed by the executor and handed to the node.
ProgrammerState ==
    [messages |-> << >>, survey_text |-> None, survey_json |-> None, fc_response |-> None]

\* What a caller starts a run with: a request, or a transcript that already
\* ends with a tool result.
ProgrammerInputs ==
    {<<Human("program the survey in doc 1")>>,
     <<Human("program the survey in doc 1"), ToolMessage("Q1. How satisfied are you?")>>}
\* recursion_limit is the caller's: 1 makes the first step the last one.
RecursionLimits == {1, 2, RecursionLimit}

\* The chat model answers with or without tool calls, or the call fails.
ModelResponses ==
    {[kind |-> "message", value |-> AIMessage("Which document do you mean?", << >>)],
     [kind |-> "message", value |-> AIMessage("", <<"fetch_survey_doc_tool">>)],
     CallFailed}
\* The content of the ToolMessage the ToolNode returns: the document, an
\* empty document, or the text of a tool error.
ToolOutputs == {"Q1. How satisfied are you?", "", "Error: document not found"}
\* What the doc_to_survey_json chain returns: a survey JSON, an empty one
\* ("" stands for every falsy result), a message object, or the call fails.
SurveyJsons == {"{pages: [Q1]}"}
SurveyJsonReplies ==
    {[kind |-> "json", value |-> j] : j \in SurveyJsons \cup {""}}
        \cup {[kind |-> "message", value |-> "{pages: [Q1]}"], CallFailed}
\* The Fuel Cycle API answers 2xx with a body, or requests.post /
\* raise_for_status raises.
HttpReplies == {[kind |-> "text", value |-> "created"], CallFailed}
FuelCycleResponse == [created |-> "Fuel Cycle response:\ncreated"]

\* load_survey_doc that returns no message on the last step: only what it
\* captured.
load_survey_doc_silent(s, is_last_step, model_response) ==
    LET call == Call("model", "system_prompt", [messages |-> s.messages])
        captured == s.messages # << >> /\ Last(s.messages).role = "tool"
        survey_text == IF captured THEN Last(s.messages).content ELSE s.survey_text
    IN  IF model_response.kind = "error" THEN Raised(s, <<call>>)
        ELSE IF is_last_step /\ model_response.value.tool_calls # << >>
             THEN Returned(update_state(s, [survey_text |-> survey_text]), <<call>>, None)
        ELSE Returned(update_state(s, [survey_text |-> survey_text,
                                       messages |-> Append(s.messages, model_response.value)]),
                      <<call>>, None)

\* load_survey_doc without the last-step check: the model's response is
\* returned as it is.
load_survey_doc_unchecked(s, is_last_step, model_response) ==
    LET call == Call("model", "system_prompt", [messages |-> s.messages])
        captured == s.messages # << >> /\ Last(s.messages).role = "tool"
        survey_text == IF captured THEN Last(s.messages).content ELSE s.survey_text
    IN  IF model_response.kind = "error" THEN Raised(s, <<call>>)
        ELSE Returned(update_state(s, [survey_text |-> survey_text,
                                       messages |-> Append(s.messages, model_response.value)]),
                      <<call>>, None)

load_survey_doc(s, is_last_step, model_response) ==
    LET call == Call("model", "system_prompt", [messages |-> s.messages])
        captured == s.messages # << >> /\ Last(s.messages).role = "tool"
        survey_text == IF captured THEN Last(s.messages).content ELSE s.survey_text
    IN  IF model_response.kind = "error" THEN Raised(s, <<call>>)
        ELSE IF is_last_step /\ model_response.value.tool_calls # << >>
             THEN Returned(update_state(s, [messages |-> Append(s.messages, StepApology)]),
                           <<call>>, None)
        ELSE Returned(update_state(s, [survey_text |-> survey_text,
                                       messages |-> Append(s.messages, model_response.value)]),
                      <<call>>, None)

route_model_output(s) ==
    LET last_message == Last(s.messages)
    IN  IF last_message.role # "ai" THEN "ValueError"
        ELSE IF last_message.tool_calls = << >> THEN END
        ELSE "fetch_survey_doc"

\* TOOL_NODE runs the tool calls of the last message; the content of the
\* ToolMessage it returns is `output`.
tools_with_capture(s, output) ==
    LET call == Call("tool", Last(s.messages).tool_calls[1], << >>)
    IN  Returned(update_state(s, [messages |-> Append(s.messages, ToolMessage(output)),
                                  survey_text |-> output]),
                 <<call>>, None)

generate_surveyjs_json(s, reply) ==
    LET call == Call("drafting", "doc_to_survey_json", [survey_text |-> s.survey_text])
    IN  IF s.survey_text \in {None, ""} THEN Returned(s, << >>, None)
        ELSE IF reply.kind = "error" THEN Raised(s, <<call>>)
        ELSE IF reply.kind = "message" THEN Raised(s, <<call>>)  \* AIMessage(content=[message])
        ELSE Returned(update_state(s,
                          [messages |-> Append(s.messages, AIListMessage(<<reply.value>>)),
                           survey_json |-> reply.value]),
                      <<call>>, None)

\* post_fc_survey that posts whatever survey_json holds.
post_fc_survey_unguarded(s, http) ==
    LET call == Call("http", "POST /v1/core/fcsurveys", [surveyJsJson |-> s.survey_json])
    IN  IF http.kind = "error" THEN Raised(s, <<call>>)
        ELSE Returned(update_state(s,
                          [messages |-> Append(s.messages,
                                               AIMessage(FuelCycleResponse[http.value], << >>)),
                           fc_response |-> http.value]),
                      <<call>>, None)

post_fc_survey(s, http) ==
    LET call == Call("http", "POST /v1/core/fcsurveys", [surveyJsJson |-> s.survey_json])
    IN  IF s.survey_json \in {None, ""} THEN Returned(s, << >>, None)
        ELSE IF http.kind = "error" THEN Raised(s, <<call>>)
        ELSE Returned(update_state(s,
                          [messages |-> Append(s.messages,
                                               AIMessage(FuelCycleResponse[http.value], << >>)),
                           fc_response |-> http.value]),
                      <<call>>, None)

ProgrammerInit ==
    /\ graph = "P"
    /\ state = ProgrammerState
    /\ pc = START
    /\ status = "idle"
    /\ steps = 0
    /\ resumeValue = NoValue
    /\ starts = 0
    /\ resumes = 0
    /\ invocation = [kind |-> "none", input |-> None, state |-> state,
                     previous |-> NoInvocation, recursion_limit |-> RecursionLimit]
    /\ pre = state
    /\ lastCalls = << >>
    /\ lastLabel = None
    /\ runNodes = << >>
    /\ runCalls = << >>
    /\ designed = FALSE
    /\ lastReplies = << >>
    /\ response = NoStub
    /\ heap = << >>
    /\ held = << >>

\* start(thread_id, input) with the caller's recursion_limit.
StartProgrammer ==
    /\ graph = "P"
    /\ status # "running"
    /\ starts < MaxProgrammerInvocations
    /\ \E input \in ProgrammerInputs, limit \in RecursionLimits :
          /\ state' = update_state(state, [messages |-> state.messages \o input])
          /\ invocation' = [kind |-> "start", input |-> input, state |-> state,
                            previous |-> Previous, recursion_limit |-> limit]
          /\ BeginRun(update_state(state, [messages |-> state.messages \o input]))
    /\ pc' = "orchestrate"
    /\ status' = "running"
    /\ steps' = 0
    /\ resumeValue' = NoValue
    /\ starts' = starts + 1
    /\ UNCHANGED <<graph, resumes, designed, response, objects>>

RunningProgrammer(node) ==
    graph = "P" /\ status = "running" /\ pc = node /\ steps < invocation.recursion_limit

\* The managed value is_last_step of the step about to run.
IsLastStep == steps = invocation.recursion_limit - 1

Orchestrate ==
    /\ RunningProgrammer("orchestrate")
    /\ \E reply \in ModelResponses :
          LET r == load_survey_doc(state, IsLastStep, reply)
          IN  Complete("orchestrate",
                       IF ~r.raised /\ route_model_output(r.state) = "ValueError"
                       THEN Raised(state, r.calls) ELSE r,
                       IF r.raised THEN None ELSE route_model_output(r.state),
                       <<reply>>)

\* The tool step with the edge the wiring has commented out: after the
\* tools, control returns to the model.
FetchSurveyDocThenModel ==
    /\ RunningProgrammer("fetch_survey_doc")
    /\ \E output \in ToolOutputs :
          Complete("fetch_survey_doc", tools_with_capture(state, output),
                   "orchestrate", <<[kind |-> "text", value |-> output]>>)

FetchSurveyDoc ==
    /\ RunningProgrammer("fetch_survey_doc")
    /\ \E output \in ToolOutputs :
          Complete("fetch_survey_doc", tools_with_capture(state, output),
                   "generate_surveyjs_json", <<[kind |-> "text", value |-> output]>>)

GenerateSurveyjsJson ==
    /\ RunningProgrammer("generate_surveyjs_json")
    /\ \E reply \in SurveyJsonReplies :
          Complete("generate_surveyjs_json", generate_surveyjs_json(state, reply),
                   "post_fc_survey", <<reply>>)

PostFcSurvey ==
    /\ RunningProgrammer("post_fc_survey")
    /\ \E http \in HttpReplies :
          Complete("post_fc_survey", post_fc_survey(state, http), END, <<http>>)

OutOfProgrammerSteps ==
    /\ graph = "P"
    /\ status = "running"
    /\ steps >= invocation.recursion_limit
    /\ status' = "recursion_error"
    /\ UNCHANGED <<graph, state, pc, steps, resumeValue, starts, resumes, response, objects>>
    /\ UNCHANGED hist

ProgrammerNext ==
    \/ StartProgrammer
    \/ Orchestrate
    \/ FetchSurveyDoc
    \/ GenerateSurveyjsJson
    \/ PostFcSurvey
    \/ OutOfProgrammerSteps

ProgrammerSpec == ProgrammerInit /\ [][ProgrammerNext]_vars

\* The executor keeps running the current node of a run it has begun; the
\* caller is under no obligation to start another run.
ProgrammerStep ==
    \/ Orchestrate
    \/ FetchSurveyDoc
    \/ GenerateSurveyjsJson
    \/ PostFcSurvey
    \/ OutOfProgrammerSteps
ProgrammerLiveSpec == ProgrammerSpec /\ WF_vars(ProgrammerStep)

(***************************************************************************)
(* Properties.                                                             *)
(***************************************************************************)
\* The feedback-capture nodes of the two graphs.
FeedbackNodes == {"await_objective_feedback", "await_revision_feedback", "wait_for_message"}

\* LastNode has just completed: the executor has followed its edge and no
\* later node has run yet.
JustCompleted(node) == LastNode = node /\ status \in {"running", "done"}

DraftingCalls(calls) == {i \in 1..Len(calls) : calls[i].svc = "drafting"}

\* C1: in survey_designerV2 a run ends at END out of the design cycle only
\* when the decision await_revision_feedback has just stored is `advance`.
C1_AcceptedOnlyOnAdvance ==
    (graph = "V2" /\ status = "done" /\ LastNode = "await_revision_feedback")
        => state.design_router_decision = "advance"

\* C2: when the Classifier's label is outside {advance, revise, off-topic},
\* the router of a feedback-capture node routes back to that node (wait), not
\* on to initial_design, END or finalization.
C2_UnknownLabelRoutesToWait ==
    (\E n \in FeedbackNodes : JustCompleted(n)) /\ lastLabel \notin KnownLabels \cup {None}
        => pc = LastNode

\* C3: after await_objective_feedback the objective router goes to
\* objective_reviser on `revise`, to the off-topic responder on `off-topic`
\* and to initial_design otherwise, on the direction that node just received.
C3_ObjectiveRouterFollowsStoredDecision ==
    (graph = "V2" /\ JustCompleted("await_objective_feedback"))
        => pc = CASE lastLabel = "revise" -> "objective_reviser"
                  [] lastLabel = "off-topic" -> "off_topic_objective_nudge"
                  [] OTHER -> "initial_design"

\* C4: after initial_guardrail, a decision of `advance` leads to
\* objective_clarifier as the next node; with any other decision the run is
\* over after that one node and has made no Drafting Service call.
C4_GuardrailGate ==
    (graph = "V2" /\ runNodes # << >> /\ runNodes[1] = "initial_guardrail")
        => IF state.guardrail_decision = "advance"
           THEN IF Len(runNodes) = 1
                THEN pc = "objective_clarifier" /\ status \in {"running", "failed"}
                ELSE runNodes[2] = "objective_clarifier"
           ELSE /\ runNodes = <<"initial_guardrail">>
                /\ status = "done"
                /\ pc = END
                /\ DraftingCalls(runCalls) = {}

C4_Witness ==
    /\ graph = "V2"
    /\ runNodes = <<"initial_guardrail">>
    /\ state.guardrail_decision = "off-topic"
    /\ status = "done"

\* C5: every step leaves the transcript it found as a prefix of the
\* transcript it leaves: entries are only ever appended.
C5_TranscriptAppendOnly ==
    [][IsPrefix(state.messages, state'.messages)]_vars

C5_Witness ==
    /\ LastNode \in {"off_topic_revision_nudge", "off_topic"}
    /\ Len(pre.messages) >= 2
    /\ state.messages = Append(pre.messages, AI("Sorry, I can only help with writing surveys."))

\* C6: in survey_designerV2 survey_json is None exactly as long as
\* initial_design has not completed; afterwards no step makes it None again.
C6_DraftPresentOnceDesigned ==
    graph = "V2" => ((state.survey_json = None) <=> ~designed)

C6_Witness ==
    /\ graph = "V2"
    /\ status = "failed"
    /\ pc = "design_revision"
    /\ state.survey_json # None

\* C7: initial_design executed on a State without an objective returns the
\* State it received and calls no collaborator.
ObjectiveAbsent(s) ==
    IF graph = "V2" THEN s.clarified_objectives = None ELSE latest_human(s) = None

C7_InitialDesignNoOpWithoutObjective ==
    (LastNode = "initial_design" /\ ObjectiveAbsent(pre))
        => state = pre /\ lastCalls = << >>

\* C8: the revision node executed on a State that is already approved (last
\* design decision `advance`; the approved flag in survey_designer) returns
\* the State it received and calls no collaborator.
C8_RevisionNoOpWhenApproved ==
    (\/ LastNode = "design_revision" /\ pre.design_router_decision = "advance"
     \/ LastNode = "revision" /\ pre.approved)
        => state = pre /\ lastCalls = << >>

\* C9: every run ends at END or at a suspension point (or with a failed
\* node); no run uses up the executor's step budget going through nodes and
\* routers.
C9_RunsEndOrSuspend ==
    status # "recursion_error"

\* C10: in survey_designerV2, when the first node of a resumed run has
\* completed, it is a feedback-capture node, the transcript is the one at
\* the suspension plus one human turn holding the resume's input, and the
\* route taken is the one for the direction classified from that input.
RouteFor(node, label) ==
    CASE node = "await_objective_feedback" ->
            (CASE label = "revise" -> "objective_reviser"
               [] label = "off-topic" -> "off_topic_objective_nudge"
               [] OTHER -> "initial_design")
      [] node = "await_revision_feedback" ->
            (CASE label = "revise" -> "design_revision"
               [] label = "off-topic" -> "off_topic_revision_nudge"
               [] OTHER -> END)

C10_ResumeClassifiesThenRoutes ==
    (graph = "V2" /\ invocation.kind = "resume" /\ Len(runNodes) = 1
                  /\ status \in {"running", "done"})
        => /\ LastNode \in FeedbackNodes
           /\ state.messages = Append(invocation.state.messages, Human(invocation.input))
           /\ lastLabel \in KnownLabels => pc = RouteFor(LastNode, lastLabel)

\* C14: for every response text the recovery of structured output ends
\* with a result: initial_design does not fail on its draft call, and when
\* no step of the recovery finds a structure the draft it stores is the
\* whole response as text.
DraftCallFailed == status = "failed" /\ pc = "initial_design" /\ Len(runCalls) = 1

C14_RecoveryTerminates ==
    (response.stubbed /\ steps >= 1)
        => /\ ~DraftCallFailed
           /\ (JustCompleted("initial_design")
                  /\ coerce_json(response.content).kind = "none")
                 => state.survey_json = [text |-> strip_text(response.content)]

\* C15: when the response is prose around exactly one JSON object, the draft
\* initial_design stores is that object as a dict, whether the response
\* begins with the object or with prose and whether or not the prompt has a
\* structured output parser.
IsProse(t) == (\A i \in 1..Len(t) : t[i] \in {"x", " "}) /\ (\E i \in 1..Len(t) : t[i] = "x")

OneEmbeddedObject(text) ==
    /\ Cardinality(Opens(text)) = 1
    /\ Cardinality(Closes(text)) = 1
    /\ Min(Opens(text)) < Max(Closes(text))
    /\ json_loads(SubSeq(text, Min(Opens(text)), Max(Closes(text)))).kind = "dict"
    /\ IsProse(SubSeq(text, 1, Min(Opens(text)) - 1)
                \o SubSeq(text, Max(Closes(text)) + 1, Len(text)))

EmbeddedObject(text) == json_loads(SubSeq(text, Min(Opens(text)), Max(Closes(text))))

C15_EmbeddedObjectStored ==
    (response.stubbed /\ JustCompleted("initial_design")
                       /\ OneEmbeddedObject(response.content))
        => state.survey_json = EmbeddedObject(response.content).value

\* C11: in survey_designerV2 a resume that carries the same human input as
\* the resume made just before it on the thread has no effect of its own:
\* the transcript stays as the resume found it (the human turn is in it
\* once) and the feedback is not classified a second time.
RepeatedResume ==
    /\ graph = "V2"
    /\ invocation.kind = "resume"
    /\ invocation.previous.kind = "resume"
    /\ invocation.previous.input = invocation.input

C11_ResumeExactlyOnce ==
    RepeatedResume => state.messages = invocation.state.messages /\ runCalls = << >>

\* C13: a node's effect is all or nothing.  A step in which a collaborator
\* call fails leaves the State as the node found it; a step of a node that
\* makes two calls (the draft, then the reflection) either leaves the State
\* as it found it or commits both the new draft and the reflection turn.
TwoCallNodes == {"initial_design", "design_revision", "revision"}
DraftOf(s) == IF graph = "V2" THEN s.survey_json ELSE s.survey_text

C13_NodeAllOrNothing ==
    [][status = "running" =>
          /\ status' = "failed" => state' = state
          /\ pc \in TwoCallNodes =>
                \/ state' = state
                \/ /\ status' = "running"
                   /\ Len(runCalls') = Len(runCalls) + 2
                   /\ \A i \in 1..2 : lastReplies'[i].kind # "error"
                   /\ DraftOf(state') = lastReplies'[1].value
                   /\ state'.messages = Append(state.messages, AI(lastReplies'[2].value))]_vars

C13_Witness ==
    /\ graph = "V2"
    /\ status = "failed"
    /\ pc = "initial_design"
    /\ Len(runCalls) >= 2
    /\ Last(runCalls).prompt = "revision_reflection"
    /\ state.survey_json = None

\* C16 (as claimed): in survey_designerV2, when a conversation is started
\* and the guardrail classifies the human message `advance`, the run has
\* executed initial_design by its first suspension, which is at the design
\* feedback point with the draft present.
Executed(node) == \E i \in 1..Len(runNodes) : runNodes[i] = node

FreshStartAdvanced ==
    /\ graph = "V2"
    /\ invocation.kind = "start"
    /\ invocation.previous.kind = "none"
    /\ runNodes # << >>
    /\ runNodes[1] = "initial_guardrail"
    /\ state.guardrail_decision = "advance"

C16_StartRunDesigns ==
    (FreshStartAdvanced /\ status = "suspended")
        => /\ Executed("initial_design")
           /\ pc = "await_revision_feedback"
           /\ state.survey_json # None

\* C16 (amended): that run executes objective_clarifier and suspends at the
\* objective feedback point with no draft yet; initial_design runs in a
\* resumed run, stores the Drafting Service's draft and appends the
\* reflection turn, and the run goes on to the design feedback point, where
\* every suspension finds the draft present.
C16_DesignFollowsObjectiveCycle ==
    graph = "V2" =>
        /\ (FreshStartAdvanced /\ status = "suspended")
              => /\ runNodes = <<"initial_guardrail", "objective_clarifier">>
                 /\ pc = "await_objective_feedback"
                 /\ state.survey_json = None
        /\ JustCompleted("initial_design")
              => /\ invocation.kind = "resume"
                 /\ state.survey_json = lastReplies[1].value
                 /\ state.messages = Append(pre.messages, AI(lastReplies[2].value))
                 /\ pc = "await_revision_feedback"
        /\ (LastNode = "initial_design" /\ status = "suspended")
              => pc = "await_revision_feedback"
        /\ (status = "suspended" /\ pc = "await_revision_feedback")
              => state.survey_json # None

C16_Witness ==
    /\ graph = "V2"
    /\ status = "suspended"
    /\ LastNode = "initial_design"
    /\ state.survey_json = "D1"
    /\ Last(state.messages) = AI("R1")

\* A run of survey_designerV2 resumed at the design feedback point, whose
\* feedback node has stored the decision `label`.
DesignResume(label) ==
    /\ graph = "V2"
    /\ invocation.kind = "resume"
    /\ runNodes # << >>
    /\ runNodes[1] = "await_revision_feedback"
    /\ state.design_router_decision = label

\* C17: a design-cycle resume whose feedback is labelled `advance` ends the
\* run at END right after the feedback node: no revision node runs, no
\* Drafting Service call is made and the draft is the one the resume found.
C17_AdvanceAcceptsDraft ==
    DesignResume("advance")
        => /\ runNodes = <<"await_revision_feedback">>
           /\ status = "done"
           /\ pc = END
           /\ DraftingCalls(runCalls) = {}
           /\ state.survey_json = invocation.state.survey_json

C17_Witness ==
    /\ DesignResume("advance")
    /\ status = "done"
    /\ state.survey_json = "D1"
    /\ Len(runCalls) = 1

\* C18: a design-cycle resume whose feedback is labelled `revise` runs
\* design_revision once, right after the feedback node; the draft is then
\* exactly what the Drafting Service returned for the revision, the
\* reflection turn is the one new transcript entry of that node, and the run
\* is back at the design feedback point, where it suspends.
C18_ReviseReplacesDraft ==
    DesignResume("revise")
        => /\ Len(runNodes) <= 2
           /\ Len(runNodes) = 1 => pc = "design_revision" /\ status \in {"running", "failed"}
           /\ Len(runNodes) = 2
                 => /\ runNodes[2] = "design_revision"
                    /\ pc = "await_revision_feedback"
                    /\ resumeValue = NoValue
                    /\ status \in {"running", "suspended"}
                    /\ state.survey_json = lastReplies[1].value
                    /\ state.messages = Append(pre.messages, AI(lastReplies[2].value))

C18_Witness ==
    /\ DesignResume("revise")
    /\ status = "suspended"
    /\ runNodes = <<"await_revision_feedback", "design_revision">>
    /\ invocation.state.survey_json = "D1"
    /\ state.survey_json = "D2"

\* C19: in a resumed run whose feedback node received the label `off-topic`
\* the next node is the off-topic responder of that cycle; the responder
\* appends the one fixed apology turn, calls no collaborator and changes no
\* other field, and the run is then back at the feedback node it came from,
\* where it suspends.
OffTopicNodeOf(node) ==
    CASE node = "await_objective_feedback" -> "off_topic_objective_nudge"
      [] node = "await_revision_feedback" -> "off_topic_revision_nudge"
      [] node = "wait_for_message" -> "off_topic"

C19_OffTopicRespondsAndResuspends ==
    (invocation.kind = "resume" /\ runNodes # << >> /\ runNodes[1] \in FeedbackNodes)
        => /\ (Len(runNodes) = 1 /\ lastLabel = "off-topic" /\ status \in {"running", "done"})
                 => pc = OffTopicNodeOf(runNodes[1])
           /\ (Len(runNodes) = 2 /\ runNodes[2] = OffTopicNodeOf(runNodes[1]))
                 => /\ lastCalls = << >>
                    /\ state = update_state(pre, [messages |-> Append(pre.messages, Apology)])
                    /\ pc = runNodes[1]
                    /\ resumeValue = NoValue
                    /\ status \in {"running", "suspended"}

\* C20: the State _update_state returns has the value of each named field
\* as given and the value of every other field as in the State it was
\* called with, and every State object produced so far still has the value
\* it had when it was produced.
C20_UpdateStateLeavesInputAlone ==
    \A i \in 1..Len(held) :
        /\ Value(heap, held[i].ref) = held[i].value
        /\ i > 1 => \A f \in DOMAIN held[i].value :
                        held[i].value[f] = IF f \in DOMAIN held[i].changes
                                           THEN held[i].changes[f]
                                           ELSE held[i - 1].value[f]

C20_Witness ==
    /\ Len(held) = 3
    /\ Len(held[3].value.messages) > Len(held[1].value.messages)
    /\ Value(heap, held[1].ref) = held[1].value
    /\ held[3].ref # held[1].ref

\* The decision a field holds is the label `label`, held as a plain string.
IsLabelRoute(route, label) == route.kind = "text" /\ route.value = label

\* C21: in survey_designerV2 each of guardrail_decision,
\* objective_router_decision and design_router_decision is absent or one
\* single routing label, and right after the node of its decision point has
\* classified, the field equals the direction that classification returned.
C21_DecisionFieldsHoldLabels ==
    graph = "V2" =>
        /\ state.guardrail_decision \in {None} \cup Labels
        /\ state.design_router_decision \in {None} \cup Labels
        /\ \/ state.objective_router_decision = NoRoute
           \/ \E l \in Labels : IsLabelRoute(state.objective_router_decision, l)
        /\ JustCompleted("initial_guardrail") => state.guardrail_decision = lastLabel
        /\ JustCompleted("await_revision_feedback")
               => state.design_router_decision = lastLabel
        /\ JustCompleted("await_objective_feedback")
               => IsLabelRoute(state.objective_router_decision, lastLabel)

\* The feedback node of survey_designer ran on a transcript that does not
\* end with a human message: no human input has arrived since the last cycle.
NoNewHumanInput ==
    /\ graph = "V1"
    /\ JustCompleted("wait_for_message")
    /\ (pre.messages = << >> \/ Last(pre.messages).role # "human")

\* C22: a feedback cycle of survey_designer that got no new human input
\* routes `wait` (back to wait_for_message) without any Classifier call, so
\* the feedback of an earlier cycle is never classified or routed on again.
C22_NoInputRoutesWaitWithoutCall ==
    NoNewHumanInput => (pc = "wait_for_message" /\ lastCalls = << >>)

\* C23: when initial_guardrail completes, guardrail_decision is the label the
\* Classifier returned; on `advance` the transcript is the one the node was
\* given, on any other label it is that transcript plus exactly the
\* Classifier's canned response; the draft and the objective are unchanged.
C23_GuardrailFrame ==
    (graph = "V2" /\ JustCompleted("initial_guardrail"))
        => /\ state.guardrail_decision = lastReplies[1].value.direction
           /\ state.messages = IF lastReplies[1].value.direction = "advance"
                               THEN pre.messages
                               ELSE Append(pre.messages, lastReplies[1].value.response)
           /\ state.survey_json = pre.survey_json
           /\ state.clarified_objectives = pre.clarified_objectives

\* The guardrail turned down the message that restarted a thread which
\* already has an objective and a draft.
C23_Witness ==
    /\ graph = "V2" /\ JustCompleted("initial_guardrail")
    /\ lastLabel = "off-topic"
    /\ state.messages = Append(pre.messages, AI("canned"))
    /\ state.survey_json \in Drafts
    /\ state.clarified_objectives \in Objectives

\* C24: once the Revision node has produced a new draft, the decision that
\* led to it is gone: design_router_decision is absent in survey_designerV2
\* and the stored feedback is absent in survey_designer.
C24_RevisionClearsDecision ==
    /\ (graph = "V2" /\ JustCompleted("design_revision"))
           => state.design_router_decision = None
    /\ (graph = "V1" /\ JustCompleted("revision") /\ DraftingCalls(lastCalls) # {})
           => state.feedback = None

\* The nodes that ask the Classifier Service for a decision, and where each
\* of them sends the run on `advance`.
ClassifyingNodes == {"initial_guardrail"} \cup FeedbackNodes
AdvanceTarget ==
    [initial_guardrail |-> "objective_clarifier",
     await_objective_feedback |-> "initial_design",
     await_revision_feedback |-> END,
     wait_for_message |-> "finalization"]

\* A Classifier reply that cannot be read as a structured decision.
Malformed(reply) ==
    \/ reply.kind = "text"
    \/ reply.kind = "dict" /\ "direction" \notin DOMAIN reply.value

\* C25: a Classifier reply that is plain text or lacks `direction` never
\* makes the guardrail node or a feedback-capture node fail, and the run is
\* not routed as on `advance` after it.
C25_MalformedDecisionRecovered ==
    /\ (status = "failed" /\ pc \in ClassifyingNodes /\ lastReplies # << >>)
           => ~Malformed(lastReplies[1])
    /\ \A n \in ClassifyingNodes :
           (JustCompleted(n) /\ lastReplies # << >> /\ Malformed(lastReplies[1]))
               => pc # AdvanceTarget[n]

RevisionNodes == {"design_revision", "revision"}

\* C26: a Revision node that produced a draft made two Drafting calls in
\* this order: the revision call, given the latest human feedback and the
\* draft the node received, and then the reflection call, whose subject is
\* the draft the revision call returned (the draft now in the State).
C26_ReflectionOnNewDraft ==
    \A n \in RevisionNodes :
        (JustCompleted(n) /\ lastCalls # << >>)
            => /\ Len(lastCalls) = 2
               /\ lastCalls[1].prompt \in {"revision_reviser_prompt", "survey_reviser"}
               /\ IF graph = "V2"
                  THEN lastCalls[1].args = [human_message |-> latest_human(pre),
                                            current_survey |-> pre.survey_json]
                  ELSE /\ lastCalls[1].args.revision_request =
                              (IF pre.feedback = None THEN "" ELSE pre.feedback)
                       /\ pre.survey_text \notin {None, ""}
                              => lastCalls[1].args.current_survey = pre.survey_text
               /\ lastCalls[2].prompt = "revision_reflection"
               /\ DraftOf(state) = lastReplies[1].value
               /\ lastCalls[2].args.survey = DraftOf(state)

DraftNodes == {"initial_design", "design_revision", "revision"}
DraftNodeRuns == {i \in 1..Len(runNodes) : runNodes[i] \in DraftNodes}

\* C27: a run (what one start or one resume sets off) executes a
\* draft-producing node at most once, and except for the first invocation
\* of a thread only the resume of a suspended thread, which carries the
\* human's input, leads to such an execution.
C27_OneDraftNodePerHumanTurn ==
    /\ Cardinality(DraftNodeRuns) <= 1
    /\ DraftNodeRuns # {}
           => (invocation.kind = "resume" \/ invocation.previous.kind = "none")

\* orchestrate has just completed on the last allowed step of its run, and
\* the model's response asked for tool calls.
LastStepWithToolCalls ==
    /\ graph = "P"
    /\ JustCompleted("orchestrate")
    /\ invocation.recursion_limit = 1
    /\ lastReplies[1].value.tool_calls # << >>

\* C29: when orchestrate runs on the last allowed step and the model's
\* response requests tool calls, the node's only change is the apology
\* appended to the transcript, a message without tool calls; the router
\* selects END, so the run is over with no call other than the model's: no
\* tool has run, no survey JSON was generated, nothing was posted.
C29_LastStepToolCallsEndsRun ==
    LastStepWithToolCalls
        => /\ state = update_state(pre, [messages |-> Append(pre.messages, StepApology)])
           /\ Last(state.messages).tool_calls = << >>
           /\ pc = END /\ status = "done"
           /\ runNodes = <<"orchestrate">>
           /\ \A i \in 1..Len(runCalls) : runCalls[i].svc = "model"

\* The run that was cut short had a tool result waiting in its transcript.
C29_Witness ==
    /\ LastStepWithToolCalls
    /\ status = "done"
    /\ Last(state.messages) = StepApology
    /\ Last(pre.messages).role = "tool"

\* C30: generate_surveyjs_json makes no call and changes nothing when
\* survey_text is absent or empty, post_fc_survey makes no HTTP request and
\* changes nothing when survey_json is absent or empty, and every POST made
\* in a run carried a survey_json that is neither.
C30_EmptyInputsAreNoOps ==
    graph = "P" =>
        /\ (JustCompleted("generate_surveyjs_json") /\ pre.survey_text \in {None, ""})
               => (lastCalls = << >> /\ state = pre)
        /\ (JustCompleted("post_fc_survey") /\ pre.survey_json \in {None, ""})
               => (lastCalls = << >> /\ state = pre)
        /\ \A i \in 1..Len(runCalls) :
               runCalls[i].svc = "http" => runCalls[i].args.surveyJsJson \notin {None, ""}

\* An empty document went through both nodes: nothing generated, nothing
\* posted.
C30_Witness ==
    /\ graph = "P"
    /\ runNodes = <<"orchestrate", "fetch_survey_doc", "generate_surveyjs_json",
                    "post_fc_survey">>
    /\ status = "done"
    /\ state.survey_text = ""
    /\ state.survey_json = None
    /\ \A i \in 1..Len(runCalls) : runCalls[i].svc \in {"model", "tool"}

ShortPath == <<"orchestrate">>
LongPath == <<"orchestrate", "fetch_survey_doc", "generate_surveyjs_json", "post_fc_survey">>

\* The nodes a run of survey_programmer has executed lie along the long
\* path, and a run that reached END executed the short or the long path.
OnProgrammerPath ==
    graph = "P" =>
        /\ IsPrefix(runNodes, LongPath)
        /\ status = "done" => runNodes \in {ShortPath, LongPath}
        /\ Cardinality({i \in 1..Len(runNodes) : runNodes[i] = "orchestrate"}) <= 1
        /\ status = "done" => runNodes[1] = "orchestrate"
        /\ Cardinality({i \in 1..Len(runNodes) : runNodes[i] = "post_fc_survey"}) <= 1
        /\ \A i \in 1..Len(runNodes) :
               runNodes[i] = "post_fc_survey"
                   => \E j \in 1..(i - 1) : runNodes[j] = "generate_surveyjs_json"

C32_RouterSeesAgentMessage ==
    graph = "P" =>
        /\ JustCompleted("orchestrate")
               => /\ Last(state.messages).role = "ai"
                  /\ route_model_output(state) # "ValueError"
                  /\ pc = route_model_output(state)
        /\ (status = "failed" /\ pc = "orchestrate") => lastReplies[1].kind = "error"

\* The router was consulted after a run whose input ended with a tool
\* message, on the last step (the apology) and the transcript now ends with
\* an AI message.
C32_Witness ==
    /\ graph = "P"
    /\ JustCompleted("orchestrate")
    /\ Last(pre.messages).role = "tool"
    /\ Last(state.messages).role = "ai"
    /\ Len(state.messages) = Len(pre.messages) + 1
    /\ pc \in {END, "fetch_survey_doc"}

====
